---- MODULE Spec2Model ----
(***************************************************************************)
(* Model of the EBL decoder (internal/ebl/parser.go, Parser.ReadFile).     *)
(* The input file is a sequence of bytes; ReadFile walks it stage by       *)
(* stage, keeping the file offset (pos) and its own consumed-bytes         *)
(* counter (eblFile.Read).                                                 *)
(***************************************************************************)
EXTENDS Integers, Sequences, FiniteSets, TLC

VARIABLES
    stream,                 \* content of the input file
    pos,                    \* offset of the open file (bytes actually read)
    pc,                     \* stage of ReadFile
    result,                 \* "none" while running, then "ok", "error" or "panic"
    returned,               \* <<>> for a nil *EBLFile, <<eblFile>> otherwise
    eblFile,                \* the EBLFile being filled
    filename,               \* local: decoded Header 3 filename
    foundHeader4InPadding,  \* local flag
    header4SizeBytes,       \* local: <<>> for nil, else 4 bytes
    padPos,                 \* file offset at which the padding after Header 3 starts
    audioPos,               \* file offset at which the audio data starts
    shortRead,              \* some fixed-size field got fewer bytes than asked for
    difference,             \* local of the end-of-file check
    debug,                  \* Parser.debug
    log,                    \* messages handed to Parser.Debug by the checks
    history,                \* the ReadFile calls that returned before this one
    encoder,                \* the wav.Encoder: noWrite, preserveFilename, exbName
    outDir,                 \* the files of the output directory: name and content
    calls,                  \* the calls made after decoding, with what they returned
    fs,                     \* the .ebl files on disk: directory, name and content
    batch,                  \* the run of ProcessDirectory, [state |-> "idle"] if none
    pool                    \* the run of flac ConvertDirectory, [state |-> "idle"] if none

vars == <<stream, pos, pc, result, returned, eblFile, filename,
          foundHeader4InPadding, header4SizeBytes, padPos, audioPos,
          shortRead, difference, debug, log, history, encoder, outDir, calls,
          fs, batch, pool>>

\* What ReadFile never touches
wavVars == <<history, encoder, outDir, calls>>
\* What neither ReadFile nor WriteWAV touches
sysVars == <<fs, batch, pool>>
\* No run of ProcessDirectory or of ConvertDirectory
Idle == [state |-> "idle"]

-----------------------------------------------------------------------------
(* Bounds of the input space *)

MaxGap == 12
MaxCh == 3

-----------------------------------------------------------------------------
(* Byte helpers *)

Min(a, b) == IF a < b THEN a ELSE b
Max(a, b) == IF a > b THEN a ELSE b

Zeros(n) == [i \in 1..n |-> 0]

FORM == <<70, 79, 82, 77>>
E5B0TOC2 == <<69, 53, 66, 48, 84, 79, 67, 50>>
E5S1 == <<69, 53, 83, 49>>

\* binary.BigEndian.Uint32 / binary.Read(file, binary.BigEndian, &x)
BE32(b) == b[1] * 16777216 + b[2] * 65536 + b[3] * 256 + b[4]
\* binary.Read(file, binary.LittleEndian, &x)
LE32(b) == b[1] + b[2] * 256 + b[3] * 65536 + b[4] * 16777216

\* The bytes of a 32-bit value in a file, as the format stores them
PutBE32(n) == <<(n \div 16777216) % 256, (n \div 65536) % 256, (n \div 256) % 256, n % 256>>
PutLE32(n) == <<n % 256, (n \div 256) % 256, (n \div 65536) % 256, (n \div 16777216) % 256>>

\* os.File.Read(buf) with len(buf) = n at offset p: one read, which may come
\* back short without an error; io.EOF only when nothing at all was read.
FileRead(s, p, n) ==
    IF n = 0 THEN [n |-> 0, err |-> FALSE, buf |-> <<>>]
    ELSE IF p >= Len(s) THEN [n |-> 0, err |-> TRUE, buf |-> Zeros(n)]
    ELSE LET k == Min(n, Len(s) - p)
         IN [n |-> k, err |-> FALSE, buf |-> SubSeq(s, p + 1, p + k) \o Zeros(n - k)]

\* io.ReadFull(file, buf) (also what binary.Read does): all n bytes or an error.
ReadFull(s, p, n) ==
    IF n = 0 THEN [n |-> 0, err |-> FALSE, buf |-> <<>>]
    ELSE IF Len(s) - p >= n
         THEN [n |-> n, err |-> FALSE, buf |-> SubSeq(s, p + 1, p + n)]
         ELSE LET k == Max(0, Len(s) - p)
              IN [n |-> k, err |-> TRUE, buf |-> SubSeq(s, p + 1, p + k) \o Zeros(n - k)]

RECURSIVE TrimRightNul(_)
TrimRightNul(u) ==
    IF u = <<>> THEN u
    ELSE IF u[Len(u)] = 0 THEN TrimRightNul(SubSeq(u, 1, Len(u) - 1))
    ELSE u

\* utf16.Decode: a surrogate pair is one code point, a lone surrogate U+FFFD
RECURSIVE utf16Decode(_)
utf16Decode(u) ==
    IF u = <<>> THEN <<>>
    ELSE IF /\ u[1] >= 55296 /\ u[1] < 56320
            /\ Len(u) >= 2 /\ u[2] >= 56320 /\ u[2] < 57344
         THEN <<65536 + (u[1] - 55296) * 1024 + (u[2] - 56320)>>
              \o utf16Decode(SubSeq(u, 3, Len(u)))
    ELSE IF u[1] >= 55296 /\ u[1] < 57344
         THEN <<65533>> \o utf16Decode(Tail(u))
    ELSE <<u[1]>> \o utf16Decode(Tail(u))

\* Parser.decodeUTF16: little-endian 16-bit units, trailing NULs trimmed.
\* A string is modelled as its sequence of code points.
decodeUTF16(b) ==
    LET e == IF Len(b) % 2 # 0 THEN SubSeq(b, 1, Len(b) - 1) ELSE b
        u16s == [i \in 1..(Len(e) \div 2) |-> e[2 * i - 1] + 256 * e[2 * i]]
    IN TrimRightNul(utf16Decode(u16s))

\* The magic comparisons of ReadFile
IsFORM(prefix) == prefix = FORM
IsTOC(prefix2) == prefix2 = E5B0TOC2
\* the comparison left out
IsE5S1_Any(prefix) == TRUE
IsE5S1(prefix) == prefix = E5S1

-----------------------------------------------------------------------------
(* Sizes of the fixed fields, as ReadFile reads and counts them *)

Header1Read == 8
Header2Read == 12
Header3Read == 74
Header4Len == 14
HeaderDataRead == 176
FilenameLen == 64
CommentLen == 64
DataPaddingBase == 178
TrailerLen == 4
ExtraHeaderLen == 40

\* filepath.Base(inputFile) of the file being read: "in.ebl"
InputFilename == <<105, 110, 46, 101, 98, 108>>

\* The EBLFile ReadFile starts from: Filename, Size from file.Stat(), Read = 0
NewEBLFile(size) ==
    [Filename |-> InputFilename, Size |-> size, Read |-> 0,
     Header1 |-> [Prefix |-> <<>>, FileSize |-> 0, Read |-> 0],
     Header2 |-> [Prefix |-> <<>>, NextHeaderBytes |-> 0, Read |-> 0],
     Header3 |-> [Prefix |-> <<>>, DataSize |-> 0, Data |-> 0, Zeros |-> <<>>,
                  Filename |-> <<>>, Read |-> 0],
     Padding |-> 0,
     Header4 |-> [Prefix |-> <<>>, Size |-> 0, Data |-> <<>>, Read |-> 0],
     HeaderData |-> [Filename |-> <<>>, FilenameStr |-> <<>>, V |-> <<>>,
                     Comment |-> <<>>, CommentStr |-> <<>>, Read |-> 0],
     Channel1Size |-> 0, Channel2Size |-> 0, DataSizeCalc |-> 0,
     HeaderRead |-> 0, DataSizeEst |-> 0,
     Channel1Data |-> <<>>, Channel2Data |-> <<>>]

\* The named words of HeaderData (V holds v1..v9, sampleRate, v11, v12 in order)
V2(hd) == hd.V[2]
V3(hd) == hd.V[3]
V4(hd) == hd.V[4]
V5(hd) == hd.V[5]
\* the rate every file is taken to have
SampleRate_Default(hd) == 44100
SampleRate(hd) == hd.V[10]

\* return nil, fmt.Errorf(...): the file offset is left at p
Fail(p, short) ==
    /\ pc' = "done"
    /\ result' = "error"
    /\ returned' = <<>>
    /\ pos' = p
    /\ shortRead' = (shortRead \/ short)
    /\ UNCHANGED <<stream, eblFile, filename, foundHeader4InPadding,
                   header4SizeBytes, padPos, audioPos, difference, debug, wavVars, sysVars, log>>

\* make([]byte, n) with n < 0: run-time panic
Panic ==
    /\ pc' = "done"
    /\ result' = "panic"
    /\ returned' = <<>>
    /\ UNCHANGED <<stream, pos, eblFile, filename, foundHeader4InPadding,
                   header4SizeBytes, padPos, audioPos, shortRead, difference,
                   debug, wavVars, sysVars, log>>

\* Header 1: "FORM" and the declared size
ReadHeader1 ==
    /\ pc = "h1"
    /\ LET r == FileRead(stream, pos, 4)
           f == ReadFull(stream, pos + r.n, 4)
       IN IF r.err THEN Fail(pos, TRUE)
          ELSE IF ~IsFORM(r.buf) THEN Fail(pos + r.n, r.n < 4)
          ELSE IF f.err THEN Fail(pos + r.n + f.n, TRUE)
          ELSE /\ eblFile' = [eblFile EXCEPT
                     !.Header1 = [Prefix |-> r.buf, FileSize |-> BE32(f.buf),
                                  Read |-> Header1Read],
                     !.Read = Header1Read]
               /\ pos' = pos + r.n + f.n
               /\ pc' = "h2"
               /\ shortRead' = (shortRead \/ r.n < 4)
               /\ UNCHANGED <<stream, result, returned, filename,
                              foundHeader4InPadding, header4SizeBytes, padPos,
                              audioPos, difference, debug, wavVars, sysVars, log>>

\* Header 2: "E5B0TOC2" and the next-header size
ReadHeader2 ==
    /\ pc = "h2"
    /\ LET r == FileRead(stream, pos, 8)
           f == ReadFull(stream, pos + r.n, 4)
       IN IF r.err THEN Fail(pos, TRUE)
          ELSE IF ~IsTOC(r.buf) THEN Fail(pos + r.n, r.n < 8)
          ELSE IF f.err THEN Fail(pos + r.n + f.n, TRUE)
          ELSE /\ eblFile' = [eblFile EXCEPT
                     !.Header2 = [Prefix |-> r.buf, NextHeaderBytes |-> BE32(f.buf),
                                  Read |-> Header2Read],
                     !.Read = @ + Header2Read]
               /\ pos' = pos + r.n + f.n
               /\ pc' = "h3"
               /\ shortRead' = (shortRead \/ r.n < 8)
               /\ UNCHANGED <<stream, result, returned, filename,
                              foundHeader4InPadding, header4SizeBytes, padPos,
                              audioPos, difference, debug, wavVars, sysVars, log>>

\* Header 3: "E5S1", dataSize, data, two zero bytes, 64-byte filename
ReadHeader3 ==
    /\ pc = "h3"
    /\ LET r  == FileRead(stream, pos, 4)
           p1 == pos + r.n
           ds == ReadFull(stream, p1, 4)
           p2 == p1 + ds.n
           d  == ReadFull(stream, p2, 4)
           p3 == p2 + d.n
           z  == FileRead(stream, p3, 2)
           p4 == p3 + z.n
           fn == FileRead(stream, p4, FilenameLen)
           p5 == p4 + fn.n
       IN IF r.err THEN Fail(pos, TRUE)
          ELSE IF ~IsE5S1(r.buf) THEN Fail(p1, r.n < 4)
          ELSE IF ds.err THEN Fail(p2, TRUE)
          ELSE IF d.err THEN Fail(p3, TRUE)
          ELSE IF z.err THEN Fail(p3, TRUE)
          ELSE IF fn.err THEN Fail(p4, TRUE)
          ELSE /\ eblFile' = [eblFile EXCEPT
                     !.Header3 = [Prefix |-> r.buf, DataSize |-> BE32(ds.buf),
                                  Data |-> BE32(d.buf), Zeros |-> z.buf,
                                  Filename |-> decodeUTF16(fn.buf),
                                  Read |-> Header3Read],
                     !.Read = @ + Header3Read]
               /\ filename' = decodeUTF16(fn.buf)
               /\ pos' = p5
               /\ padPos' = p5
               /\ pc' = "pad"
               /\ shortRead' = (shortRead \/ r.n < 4 \/ z.n < 2 \/ fn.n < FilenameLen)
               /\ UNCHANGED <<stream, result, returned, foundHeader4InPadding,
                              header4SizeBytes, audioPos, difference, debug, wavVars, sysVars, log>>

\* Padding after Header 3, up to Header3.Data, with the look for "E5S1" in it
ReadPadding ==
    /\ pc = "pad"
    /\ LET header3Padding == eblFile.Header3.Data - eblFile.Read
           r == FileRead(stream, pos, header3Padding)
           found == r.n >= 4 /\ IsE5S1(SubSeq(r.buf, 1, 4))
       IN IF header3Padding > 0
          THEN IF r.err THEN Fail(pos, TRUE)
               ELSE /\ eblFile' = [eblFile EXCEPT !.Padding = header3Padding,
                                                  !.Read = @ + header3Padding]
                    /\ pos' = pos + r.n
                    /\ foundHeader4InPadding' = found
                    /\ header4SizeBytes' =
                          IF found /\ r.n >= 8 THEN SubSeq(r.buf, 5, 8) ELSE <<>>
                    /\ shortRead' = (shortRead \/ r.n < header3Padding)
                    /\ pc' = "h4"
                    /\ UNCHANGED <<stream, result, returned, filename, padPos,
                                   audioPos, difference, debug, wavVars, sysVars, log>>
          ELSE /\ eblFile' = [eblFile EXCEPT !.Padding = 0]
               /\ foundHeader4InPadding' = FALSE
               /\ header4SizeBytes' = <<>>
               /\ pc' = "h4"
               /\ UNCHANGED <<stream, pos, result, returned, filename, padPos,
                              audioPos, shortRead, difference, debug, wavVars, sysVars, log>>

\* header4ReadBytes: what ReadFile counts for Header 4
header4ReadBytes(found, sizeBytes) ==
    IF found THEN (IF sizeBytes # <<>> THEN 6 ELSE 10) ELSE Header4Len

\* Header 4: "E5S1" (from the padding or from the file), size, 6 bytes of data
ReadHeader4 ==
    /\ pc = "h4"
    /\ LET fromPad == foundHeader4InPadding
           r   == IF fromPad THEN [n |-> 0, err |-> FALSE, buf |-> E5S1]
                  ELSE FileRead(stream, pos, 4)
           p1  == pos + r.n
           sz  == IF fromPad /\ header4SizeBytes # <<>>
                  THEN [n |-> 0, err |-> FALSE, buf |-> header4SizeBytes]
                  ELSE ReadFull(stream, p1, 4)
           p2  == p1 + sz.n
           d4  == FileRead(stream, p2, 6)
           p3  == p2 + d4.n
           cnt == header4ReadBytes(fromPad, header4SizeBytes)
       IN IF r.err THEN Fail(pos, TRUE)
          ELSE IF ~IsE5S1(r.buf) THEN Fail(p1, r.n < 4)
          ELSE IF sz.err THEN Fail(p2, TRUE)
          ELSE IF d4.err THEN Fail(p2, TRUE)
          ELSE /\ eblFile' = [eblFile EXCEPT
                     !.Header4 = [Prefix |-> r.buf, Size |-> BE32(sz.buf),
                                  Data |-> d4.buf, Read |-> cnt],
                     !.Read = @ + cnt]
               /\ pos' = p3
               /\ pc' = "hdata"
               /\ shortRead' = (shortRead \/ (~fromPad /\ r.n < 4) \/ d4.n < 6)
               /\ UNCHANGED <<stream, result, returned, filename,
                              foundHeader4InPadding, header4SizeBytes, padPos,
                              audioPos, difference, debug, wavVars, sysVars, log>>

\* HeaderData: second filename, twelve little-endian words, comment
ReadHeaderData ==
    /\ pc = "hdata"
    /\ LET fn == FileRead(stream, pos, FilenameLen)
           p1 == pos + fn.n
           w  == ReadFull(stream, p1, 48)
           p2 == p1 + w.n
           c  == FileRead(stream, p2, CommentLen)
           p3 == p2 + c.n
           filename2 == decodeUTF16(fn.buf)
       IN IF fn.err THEN Fail(pos, TRUE)
          ELSE IF w.err THEN Fail(p2, TRUE)
          ELSE IF c.err THEN Fail(p2, TRUE)
          ELSE /\ eblFile' = [eblFile EXCEPT
                     !.HeaderData = [Filename |-> fn.buf, FilenameStr |-> filename2,
                                     V |-> [i \in 1..12 |->
                                              LE32(SubSeq(w.buf, 4 * i - 3, 4 * i))],
                                     Comment |-> c.buf,
                                     CommentStr |-> decodeUTF16(c.buf),
                                     Read |-> HeaderDataRead],
                     !.Read = @ + HeaderDataRead]
               /\ log' = IF debug /\ filename # filename2
                         THEN log \cup {"Filename mismatch"} ELSE log
               /\ pos' = p3
               /\ pc' = "sizes"
               /\ shortRead' = (shortRead \/ fn.n < FilenameLen \/ c.n < CommentLen)
               /\ UNCHANGED <<stream, result, returned, filename,
                              foundHeader4InPadding, header4SizeBytes, padPos,
                              audioPos, difference, debug, wavVars, sysVars>>

\* Channel sizes from the words of HeaderData
\* mono taken for any pair of equal sizes
IsMono_Equal(c1, c2) == c1 = c2
IsMono(c1, c2) == c1 = c2 /\ c1 = 0
\* the two bytes of the last sample left out
MonoChannel1Size_NoPlus2(hd) == V4(hd) - V3(hd)
MonoChannel1Size(hd) == V4(hd) - V3(hd) + 2
Channel1SizeOf(hd) ==
    IF IsMono(V3(hd) - V2(hd), V5(hd) - V4(hd))
    THEN MonoChannel1Size(hd) ELSE V3(hd) - V2(hd)
Channel2SizeOf(hd) ==
    IF IsMono(V3(hd) - V2(hd), V5(hd) - V4(hd)) THEN 0 ELSE V5(hd) - V4(hd)

\* The messages of the channel-size checks
ChannelMessages(c1, c2) ==
    IF c1 = c2
    THEN {"Channels same Length"} \cup (IF c1 = 0 THEN {"MONO DETECTED"} ELSE {})
    ELSE IF c1 * c2 # 0 THEN {"Channels Different length"} ELSE {}

CalcChannelSizes ==
    /\ pc = "sizes"
    /\ LET hd == eblFile.HeaderData
           c1 == Channel1SizeOf(hd)
           c2 == Channel2SizeOf(hd)
       IN /\ eblFile' = [eblFile EXCEPT !.Channel1Size = c1, !.Channel2Size = c2,
                                        !.DataSizeCalc = c1 + c2]
          /\ log' = log \cup ChannelMessages(V3(hd) - V2(hd), V5(hd) - V4(hd))
    /\ pc' = "dpad"
    /\ UNCHANGED <<stream, pos, result, returned, filename, foundHeader4InPadding,
                   header4SizeBytes, padPos, audioPos, shortRead, difference, debug, wavVars, sysVars>>

\* dataPadding: the bytes skipped before the audio data
dataPadding(f) == V5(f.HeaderData) - f.DataSizeCalc - DataPaddingBase

ReadDataPadding ==
    /\ pc = "dpad"
    /\ LET n == dataPadding(eblFile)
           r == FileRead(stream, pos, n)
       IN IF n > 0
          THEN IF r.err THEN Fail(pos, TRUE)
               ELSE /\ eblFile' = [eblFile EXCEPT
                          !.Read = @ + n,
                          !.HeaderRead = eblFile.Read + n,
                          !.DataSizeEst = eblFile.Size - (eblFile.Read + n)]
                    /\ pos' = pos + r.n
                    /\ audioPos' = pos + r.n
                    /\ shortRead' = (shortRead \/ r.n < n)
                    /\ pc' = "ch1"
                    /\ UNCHANGED <<stream, result, returned, filename,
                                   foundHeader4InPadding, header4SizeBytes, padPos,
                                   difference, debug, wavVars, sysVars, log>>
          ELSE /\ eblFile' = [eblFile EXCEPT
                     !.HeaderRead = eblFile.Read,
                     !.DataSizeEst = eblFile.Size - eblFile.Read]
               /\ audioPos' = pos
               /\ pc' = "ch1"
               /\ UNCHANGED <<stream, pos, result, returned, filename,
                              foundHeader4InPadding, header4SizeBytes, padPos,
                              shortRead, difference, debug, wavVars, sysVars, log>>

\* a plain file.Read, which accepts a short read
ReadAudio_Partial(s, p, size) == FileRead(s, p, size)
\* The read of one channel: io.ReadFull into make([]byte, size)
ReadAudio(s, p, size) == ReadFull(s, p, size)

ReadChannel1 ==
    /\ pc = "ch1"
    /\ IF eblFile.Channel1Size < 0 THEN Panic
       ELSE LET r == ReadAudio(stream, pos, eblFile.Channel1Size)
            IN IF r.err THEN Fail(pos + r.n, FALSE)
               ELSE /\ eblFile' = [eblFile EXCEPT !.Channel1Data = r.buf,
                                                  !.Read = @ + eblFile.Channel1Size]
                    /\ pos' = pos + r.n
                    /\ pc' = "ch2"
                    /\ UNCHANGED <<stream, result, returned, filename,
                                   foundHeader4InPadding, header4SizeBytes, padPos,
                                   audioPos, shortRead, difference, debug, wavVars, sysVars, log>>

ReadChannel2 ==
    /\ pc = "ch2"
    /\ IF eblFile.Channel2Size < 0 THEN Panic
       ELSE LET r == ReadAudio(stream, pos, eblFile.Channel2Size)
            IN IF r.err THEN Fail(pos + r.n, FALSE)
               ELSE /\ eblFile' = [eblFile EXCEPT !.Channel2Data = r.buf,
                                                  !.Read = @ + eblFile.Channel2Size]
                    /\ pos' = pos + r.n
                    /\ pc' = "trailer"
                    /\ UNCHANGED <<stream, result, returned, filename,
                                   foundHeader4InPadding, header4SizeBytes, padPos,
                                   audioPos, shortRead, difference, debug, wavVars, sysVars, log>>

\* the size declared in Header 1 (which leaves out its own 8 bytes) used instead
Difference_Declared(f) == f.Header1.FileSize + 8 - f.Read
\* difference := eblFile.Size - endOfData
Difference(f) == f.Size - f.Read

\* The message of the end-of-file check for a difference the trailer read left
TrailerMessages(d) ==
    IF d # ExtraHeaderLen /\ d # TrailerLen THEN {"ERROR: Inconsistent filesize"}
    ELSE IF d = ExtraHeaderLen THEN {"WARN: Found 40 bytes"}
    ELSE {}

\* End-of-file check: 4-byte trailer, 40-byte extra header, anything else
CheckTrailer ==
    /\ pc = "trailer"
    /\ LET d == Difference(eblFile)
           r == FileRead(stream, pos, TrailerLen)
       IN IF eblFile.Read = eblFile.Size
          THEN /\ returned' = <<eblFile>>
               /\ UNCHANGED <<eblFile, pos, difference, log>>
          ELSE /\ difference' = d
               /\ IF d = TrailerLen /\ ~r.err /\ r.n = TrailerLen
                  THEN /\ eblFile' = [eblFile EXCEPT !.Read = @ + TrailerLen]
                       /\ returned' = <<eblFile'>>
                       /\ pos' = pos + r.n
                       /\ log' = log \cup {"Read 4-byte trailer"}
                  ELSE /\ pos' = IF d = TrailerLen THEN pos + r.n ELSE pos
                       /\ log' = log \cup TrailerMessages(d)
                       /\ returned' = <<eblFile>>
                       /\ UNCHANGED eblFile
    /\ pc' = "done"
    /\ result' = "ok"
    /\ UNCHANGED <<stream, filename, foundHeader4InPadding, header4SizeBytes,
                   padPos, audioPos, shortRead, debug, wavVars, sysVars>>

-----------------------------------------------------------------------------
(* The WAV encoder (package wav).  A string is its sequence of code points. *)

DotEbl == <<46, 101, 98, 108>>
DotWav == <<46, 119, 97, 118>>
Dash == <<32, 45, 32>>
RIFF == <<82, 73, 70, 70>>
WAVE == <<87, 65, 86, 69>>
FmtID == <<102, 109, 116, 32>>
DataID == <<100, 97, 116, 97>>

wavHeaderLength == 16
wavPCMMode == 1
wavBPS == 16
RiffPreamble == 36

\* strings.TrimSuffix
TrimSuffix(str, suffix) ==
    IF Len(str) >= Len(suffix)
       /\ SubSeq(str, Len(str) - Len(suffix) + 1, Len(str)) = suffix
    THEN SubSeq(str, 1, Len(str) - Len(suffix))
    ELSE str

\* The characters the expression of cleanFilename keeps: 0-9 a-z A-Z . , : % - _ #
Allowed(c) ==
    \/ c >= 48 /\ c <= 57
    \/ c >= 65 /\ c <= 90
    \/ c >= 97 /\ c <= 122
    \/ c \in {46, 44, 58, 37, 45, 95, 35}

RECURSIVE SkipDisallowed(_)
SkipDisallowed(str) ==
    IF str = <<>> \/ Allowed(Head(str)) THEN str ELSE SkipDisallowed(Tail(str))

\* one underscore for every character that is not allowed
RECURSIVE cleanFilename_PerChar(_)
cleanFilename_PerChar(str) ==
    IF str = <<>> THEN <<>>
    ELSE <<IF Allowed(Head(str)) THEN Head(str) ELSE 95>>
         \o cleanFilename_PerChar(Tail(str))

\* cleanFilename: ReplaceAllString of [^0-9a-zA-Z\.,:%\-_#]+ by "_"
RECURSIVE cleanFilename(_)
cleanFilename(str) ==
    IF str = <<>> THEN <<>>
    ELSE IF Allowed(Head(str)) THEN <<Head(str)>> \o cleanFilename(Tail(str))
    ELSE <<95>> \o cleanFilename(SkipDisallowed(Tail(str)))

\* right samples taken only while channel 2 is as long as channel 1
interleaveChannels_NoFill(channel1, channel2) ==
    LET numSamples == Min(Len(channel1), Len(channel2)) \div 2
    IN [k \in 1..(numSamples * 4) |->
          LET i == (k - 1) \div 4
              j == (k - 1) % 4
          IN IF j < 2 THEN channel1[i * 2 + j + 1] ELSE channel2[i * 2 + (j - 2) + 1]]

\* interleaveChannels: LLLL...RRRR... to LRLR..., two bytes a sample
interleaveChannels(channel1, channel2) ==
    LET numSamples == Len(channel1) \div 2
    IN [k \in 1..(numSamples * 4) |->
          LET i == (k - 1) \div 4
              j == (k - 1) % 4
          IN IF j < 2 THEN channel1[i * 2 + j + 1]
             ELSE IF i * 2 + 1 < Len(channel2) THEN channel2[i * 2 + (j - 2) + 1]
             ELSE 0]

\* uint32 values as two 16-bit halves <<high, low>>
U32(n) == <<(n \div 65536) % 65536, n % 65536>>
\* x * k in uint32 arithmetic (the product taken modulo 2^32), k small
MulU32(x, k) ==
    LET low == x[2] * k
        high == x[1] * k + low \div 65536
    IN <<high % 65536, low % 65536>>
\* x / d in uint32 arithmetic, d small
DivU32(x, d) ==
    LET high == x[1] \div d
        low == ((x[1] % d) * 65536 + x[2]) \div d
    IN <<high + low \div 65536, low % 65536>>
\* The four little-endian bytes binary.Write gives a uint32
PutU32(x) == <<x[2] % 256, x[2] \div 256, x[1] % 256, x[1] \div 256>>
\* The two little-endian bytes binary.Write gives a uint16
PutLE16(n) == <<n % 256, (n \div 256) % 256>>

\* numChannels: mono when Channel2Size is 0, stereo otherwise
numChannels_ByChannel1(f) == IF f.Channel1Size = 0 THEN 1 ELSE 2
numChannels(f) == IF f.Channel2Size = 0 THEN 1 ELSE 2

\* byteRate := sampleRate * uint32(numChannels) * uint32(wavBPS) / 8
byteRate(sampleRate, channels) ==
    DivU32(MulU32(MulU32(U32(sampleRate), channels), wavBPS), 8)

\* blockAlign := numChannels * wavBPS / 8
blockAlign(channels) == (channels * wavBPS) \div 8

\* wavData: channel 1 as it is for mono, the interleaved channels for stereo
wavData(f) ==
    IF numChannels(f) = 1 THEN f.Channel1Data
    ELSE interleaveChannels(f.Channel1Data, f.Channel2Data)

\* fileSize := 36 + dataSize
fileSize_DataOnly(f) == Len(wavData(f))
fileSize(f) == RiffPreamble + Len(wavData(f))

\* baseName: the source of the output name, in order of precedence
baseName(f, e) ==
    IF e.preserveFilename THEN TrimSuffix(f.Filename, DotEbl)
    ELSE IF cleanFilename(f.HeaderData.FilenameStr) # <<>>
         THEN cleanFilename(f.HeaderData.FilenameStr)
    ELSE IF cleanFilename(f.Header3.Filename) # <<>>
         THEN cleanFilename(f.Header3.Filename)
    ELSE TrimSuffix(f.Filename, DotEbl)

\* a name changed when the output directory already has a file of that name
outputFilename_Unique(f, e) ==
    LET name == baseName(f, e) \o DotWav
    IN IF \E o \in outDir : o.name = name THEN baseName(f, e) \o <<95>> \o DotWav
       ELSE name

\* outputFilename: the base name with the EXB prefix, if any, and ".wav"
outputFilename(f, e) ==
    IF e.exbName # <<>> THEN e.exbName \o Dash \o baseName(f, e) \o DotWav
    ELSE baseName(f, e) \o DotWav

\* The 44 bytes binary.Write gives the WAVHeader, all fields little-endian
WAVHeader(f) ==
    RIFF \o PutLE32(fileSize(f)) \o WAVE
    \o FmtID \o PutLE32(wavHeaderLength) \o PutLE16(wavPCMMode)
    \o PutLE16(numChannels(f))
    \o PutLE32(SampleRate(f.HeaderData))
    \o PutU32(byteRate(SampleRate(f.HeaderData), numChannels(f)))
    \o PutLE16(blockAlign(numChannels(f))) \o PutLE16(wavBPS)
    \o DataID \o PutLE32(Len(wavData(f)))

\* wav.NewEncoder(debug, false, false, "")
DefaultEncoder == [noWrite |-> FALSE, preserveFilename |-> FALSE, exbName |-> <<>>]

\* The most calls of WriteWAV on one encoder
MaxCalls == 2

\* WriteWAV on the decoded file, once for a call of ConvertFile.  io says how
\* far the writing gets: "create"
\* when os.Create fails, "header" and "data" when that write fails, "none"
\* when nothing fails.
WriteWAV ==
    /\ pc = "done"
    /\ result = "ok"
    /\ Len(calls) < MaxCalls
    /\ batch.state = "running" => Len(calls) = batch.callsAtStart
    /\ LET f == returned[1]
           name == outputFilename(f, encoder)
           others == {o \in outDir : o.name # name}
       IN IF encoder.noWrite
          THEN /\ calls' = Append(calls, [fn |-> "WriteWAV", name |-> name, err |-> FALSE])
               /\ UNCHANGED outDir
          ELSE \E io \in {"none", "create", "header", "data"} :
                 /\ calls' = Append(calls,
                       [fn |-> "WriteWAV",
                        name |-> IF io = "none" THEN name ELSE <<>>,
                        err |-> io # "none"])
                 /\ outDir' =
                       IF io = "create" THEN outDir
                       ELSE others \cup
                            {[name |-> name,
                              data |-> IF io = "header" THEN <<>>
                                       ELSE IF io = "data" THEN WAVHeader(f)
                                       ELSE WAVHeader(f) \o wavData(f)]}
    /\ UNCHANGED <<stream, pos, pc, result, returned, eblFile, filename,
                   foundHeader4InPadding, header4SizeBytes, padPos, audioPos,
                   shortRead, difference, debug, log, history, encoder, sysVars>>

-----------------------------------------------------------------------------
(* Input files.  An input is described by the fields it was written from;  *)
(* MakeStream lays them out in the order ReadFile consumes them.           *)

\* A name as a 64-byte UTF-16LE field, NUL padded
Name64(name) ==
    [i \in 1..FilenameLen |->
        IF (i + 1) \div 2 <= Len(name)
        THEN (IF i % 2 = 1 THEN name[(i + 1) \div 2] % 256
                            ELSE name[(i + 1) \div 2] \div 256)
        ELSE 0]

NamePad == <<80, 97, 100>>
NameWarm == <<87, 97, 114, 109>>

GapLen(data) == Max(0, data - (Header1Read + Header2Read + Header3Read))

GapBytes(g, magic) ==
    IF magic /\ g >= 4 THEN E5S1 \o [i \in 1..(g - 4) |-> i]
    ELSE [i \in 1..g |-> 100 + i]

Header4Rest(g, magic, m4) ==
    LET size == <<0, 0, 1, 0>>
        data4 == <<11, 12, 13, 14, 15, 16>>
    IN IF magic /\ g >= 8 THEN data4
       ELSE IF magic /\ g >= 4 THEN size \o data4
       ELSE m4 \o size \o data4

\* Words v1..v12 with v2..v5 taken from w
Words(w) == <<301, w[1], w[2], w[3], w[4], 0, 0, 0, 0, 44100, 0, 0>>

RECURSIVE Concat(_)
Concat(ss) == IF ss = <<>> THEN <<>> ELSE Head(ss) \o Concat(Tail(ss))

WordBytes(ws) == Concat([i \in 1..Len(ws) |-> PutLE32(ws[i])])

\* The channel sizes the writer of the file laid the audio out with
GenSizes(w) ==
    LET a == w[2] - w[1]
        b == w[4] - w[3]
    IN IF a = 0 /\ b = 0 THEN <<w[3] - w[2] + 2, 0>> ELSE <<a, b>>

AudioBytes(n) == [i \in 1..n |-> 1 + (i % 250)]

MakeBody(in) ==
    LET g == GapLen(in.data)
        sz == GenSizes(in.w)
        dpad == Max(0, in.w[4] - (sz[1] + sz[2]) - DataPaddingBase)
    IN in.m2 \o PutBE32(78)
       \o in.m3 \o PutBE32(108) \o PutBE32(in.data) \o <<0, 0>> \o Name64(in.n1)
       \o GapBytes(g, in.gapMagic)
       \o Header4Rest(g, in.gapMagic, in.m4)
       \o Name64(in.n2) \o WordBytes([Words(in.w) EXCEPT ![10] = in.rate])
       \o Name64(<<67>>)
       \o [i \in 1..dpad |-> 238]
       \o AudioBytes(Max(0, sz[1]) + Max(0, sz[2]))
       \o [i \in 1..in.trail |-> 255]

MakeStream(in) ==
    LET body == MakeBody(in)
        full == in.m1 \o PutBE32(Max(0, Len(body) + in.declDelta)) \o body
    IN IF in.cut < 0 THEN full ELSE SubSeq(full, 1, Min(in.cut, Len(full)))

DefaultInput ==
    [m1 |-> FORM, m2 |-> E5B0TOC2, m3 |-> E5S1, m4 |-> E5S1, declDelta |-> 0,
     data |-> 98, gapMagic |-> TRUE, w |-> <<184, 188, 188, 192>>, trail |-> 0,
     n1 |-> NamePad, n2 |-> NamePad, cut |-> -1, rate |-> 44100]

BadMagic(m) == {[m EXCEPT ![1] = 0], [m EXCEPT ![Len(m)] = 0]}

Deltas == (0 - 2)..MaxCh
WordTuples ==
    {<<100, 100, 200, 302>>, <<100, 100, 200, 200>>} \cup
    {w \in {<<v2, v2 + a, v2 + a + b, v2 + a + b + c>> :
                v2 \in {2, 184}, a \in Deltas, b \in Deltas, c \in Deltas} :
        \A i \in 1..4 : w[i] >= 0}

DataVals == {0} \cup {94 + g : g \in 0..MaxGap}
TrailSet == {0, 4, 7, 36, 40, 44}
DeclDeltas == {0 - 8, 0, 4, 40}
CutWords == {<<184, 188, 188, 192>>, <<2, 2, 0, 0>>, <<184, 184, 182, 182>>}

MagicInputs ==
    {[DefaultInput EXCEPT !.m1 = b, !.data = d] : b \in BadMagic(FORM), d \in {98}}
    \cup {[DefaultInput EXCEPT !.m2 = b] : b \in BadMagic(E5B0TOC2)}
    \cup {[DefaultInput EXCEPT !.m3 = b] : b \in BadMagic(E5S1)}
    \cup UNION {{[DefaultInput EXCEPT !.m4 = b, !.data = d, !.gapMagic = gm] :
                    b \in BadMagic(E5S1), d \in {0, 94, 96, 98, 100, 102}} :
                gm \in BOOLEAN}

WordInputs ==
    {[DefaultInput EXCEPT !.w = w, !.trail = t] : w \in WordTuples, t \in {0, 4}}

GapInputs ==
    UNION {{[DefaultInput EXCEPT !.data = d, !.gapMagic = gm, !.trail = t] :
               d \in DataVals, t \in TrailSet} : gm \in BOOLEAN}

DeclInputs ==
    {[DefaultInput EXCEPT !.declDelta = dd, !.trail = t] :
        dd \in DeclDeltas, t \in TrailSet}

NameInputs ==
    {[DefaultInput EXCEPT !.n1 = a, !.n2 = b] :
        a \in {<<>>, NamePad, NameWarm}, b \in {<<>>, NamePad, NameWarm}}

CutInputs ==
    UNION {{[DefaultInput EXCEPT !.w = w, !.data = d, !.cut = c] :
               c \in 0..(Len(MakeStream([DefaultInput EXCEPT !.w = w, !.data = d])) - 1)} :
           <<w, d>> \in CutWords \X {98, 104}}

\* The sample-rate word: none, half and full CD rate, and 2^28
Rates == {0, 22050, 44100, 268435456}
MonoWords == <<184, 184, 188, 188>>
RateInputs ==
    UNION {{[DefaultInput EXCEPT !.rate = r, !.w = w, !.gapMagic = gm] :
               r \in Rates, w \in {MonoWords, <<184, 188, 188, 192>>}} :
           gm \in BOOLEAN}

Inputs == MagicInputs \cup WordInputs \cup GapInputs \cup DeclInputs
          \cup NameInputs \cup CutInputs \cup RateInputs

-----------------------------------------------------------------------------

\* os.Open, file.Stat and the construction of eblFile
Init ==
    \E in \in Inputs, dbg \in BOOLEAN :
        /\ stream = MakeStream(in)
        /\ debug = dbg
        /\ eblFile = NewEBLFile(Len(MakeStream(in)))
        /\ pos = 0
        /\ pc = "h1"
        /\ result = "none"
        /\ returned = <<>>
        /\ filename = <<>>
        /\ foundHeader4InPadding = FALSE
        /\ header4SizeBytes = <<>>
        /\ padPos = 0
        /\ audioPos = 0
        /\ shortRead = FALSE
        /\ difference = 0
        /\ log = {}
        /\ fs = {}
        /\ batch = Idle
        /\ pool = Idle
        /\ history = <<>>
        /\ encoder = DefaultEncoder
        /\ outDir = {}
        /\ calls = <<>>

Next ==
    \/ ReadHeader1
    \/ ReadHeader2
    \/ ReadHeader3
    \/ ReadPadding
    \/ ReadHeader4
    \/ ReadHeaderData
    \/ CalcChannelSizes
    \/ ReadDataPadding
    \/ ReadChannel1
    \/ ReadChannel2
    \/ CheckTrailer
    \/ WriteWAV

Spec == Init /\ [][Next]_vars

-----------------------------------------------------------------------------
(* Properties *)

\* TRUE iff the bytes of s at offset p are m
MagicAt(s, p, m) == Len(s) >= p + Len(m) /\ SubSeq(s, p + 1, p + Len(m)) = m

\* Where the fixed layout puts the fields ReadFile looks at
OffsetTOC == 8
OffsetHeader3 == 20
OffsetData == 28
OffsetPadding == 98

DataOf(s) ==
    IF Len(s) >= OffsetData + 4 THEN BE32(SubSeq(s, OffsetData + 1, OffsetData + 4))
    ELSE 0
GapOf(s) == Max(0, DataOf(s) - (OffsetPadding - 4))
MagicInGap(s) == GapOf(s) >= 4 /\ MagicAt(s, OffsetPadding, E5S1)

FirstMagicsOK(s) ==
    /\ MagicAt(s, 0, FORM)
    /\ MagicAt(s, OffsetTOC, E5B0TOC2)
    /\ MagicAt(s, OffsetHeader3, E5S1)

WrongMagic(s) ==
    \/ ~FirstMagicsOK(s)
    \/ ~MagicInGap(s) /\ ~MagicAt(s, OffsetPadding + GapOf(s), E5S1)

\* C1: a file whose FORM, E5B0TOC2 or first E5S1 magic is wrong, or whose second
\* E5S1 magic is wrong when it was not found in the padding, makes ReadFile
\* return an error and a nil EBLFile.
C1_MagicValidation ==
    (pc = "done" /\ WrongMagic(stream)) => (result = "error" /\ returned = <<>>)

\* A file complete up to the Header 4 prefix, whose only wrong magic is that one
C1_Witness ==
    /\ pc = "done"
    /\ FirstMagicsOK(stream)
    /\ ~MagicInGap(stream)
    /\ Len(stream) >= OffsetPadding + GapOf(stream) + 4
    /\ ~MagicAt(stream, OffsetPadding + GapOf(stream), E5S1)
    /\ result = "error"

\* The channel sizes have been computed from a HeaderData that was read
SizesDone == eblFile.HeaderData.V # <<>> /\ pc # "sizes"

\* C2 as stated: with v2=100, v3=100, v4=200, v5=302 the decoder computes
\* Channel1Size = v4 - v3 + 2 = 102 and Channel2Size = 0.
C2_MonoExample ==
    (SizesDone /\ SubSeq(eblFile.HeaderData.V, 2, 5) = <<100, 100, 200, 302>>)
        => (eblFile.Channel1Size = 102 /\ eblFile.Channel2Size = 0)

\* C2, amended: with v2=100, v3=100, v4=200 and v5=200 (both differences zero)
\* the decoder computes Channel1Size = v4 - v3 + 2 = 102 and Channel2Size = 0;
\* with v5=302 the differences are 0 and 102, no mono is detected and the sizes
\* are Channel1Size = 0 and Channel2Size = 102.
C2_MonoExampleAmended ==
    /\ (SizesDone /\ SubSeq(eblFile.HeaderData.V, 2, 5) = <<100, 100, 200, 200>>)
          => (eblFile.Channel1Size = 102 /\ eblFile.Channel2Size = 0
              /\ "MONO DETECTED" \in log)
    /\ (SizesDone /\ SubSeq(eblFile.HeaderData.V, 2, 5) = <<100, 100, 200, 302>>)
          => (eblFile.Channel1Size = 0 /\ eblFile.Channel2Size = 102
              /\ "MONO DETECTED" \notin log)

C2_Witness ==
    /\ result = "ok"
    /\ SubSeq(eblFile.HeaderData.V, 2, 5) = <<100, 100, 200, 200>>
    /\ Len(eblFile.Channel1Data) = 102
    /\ eblFile.Channel2Data = <<>>

\* C3: for all words v2..v5 the sizes are v3 - v2 and v5 - v4, except that when
\* both are zero they become v4 - v3 + 2 and 0; equal non-zero sizes and unequal
\* sizes are used unchanged.
C3_ChannelExtents ==
    SizesDone =>
        LET v == eblFile.HeaderData.V
            a == v[3] - v[2]
            b == v[5] - v[4]
        IN IF a = 0 /\ b = 0
           THEN eblFile.Channel1Size = v[4] - v[3] + 2 /\ eblFile.Channel2Size = 0
           ELSE eblFile.Channel1Size = a /\ eblFile.Channel2Size = b

\* Equal non-zero sizes, used unchanged
C3_Witness ==
    /\ SizesDone
    /\ eblFile.HeaderData.V[3] - eblFile.HeaderData.V[2] = 2
    /\ eblFile.HeaderData.V[5] - eblFile.HeaderData.V[4] = 2
    /\ eblFile.Channel1Size = 2
    /\ eblFile.Channel2Size = 2
    /\ eblFile.HeaderData.V[4] - eblFile.HeaderData.V[3] # 0

\* C4: at every stage boundary and at the successful return the consumed-bytes
\* counter eblFile.Read equals the number of bytes read from the file.
C4_ByteAccounting ==
    result \in {"none", "ok"} => eblFile.Read = pos

\* The counter's value when the audio data has been read
EndOfData == eblFile.HeaderRead + eblFile.Channel1Size + eblFile.Channel2Size
\* The file offset when the audio data has been read
EndOfAudio == audioPos + eblFile.Channel1Size + eblFile.Channel2Size
\* The bytes of the file left unread at that point
LeftUnread == Len(stream) - EndOfAudio

Inconsistent == "ERROR: Inconsistent filesize" \in log
ExtraHeader == "WARN: Found 40 bytes" \in log

\* C5: a file read without short reads in which exactly 4 bytes are left unread
\* after the audio data decodes successfully, the 4 bytes are consumed (the
\* file is fully read, the counter advanced by 4) and no size inconsistency is
\* reported.
C5_Trailer4 ==
    (pc = "done" /\ result # "panic" /\ ~shortRead /\ audioPos > 0
       /\ eblFile.Channel1Size >= 0 /\ eblFile.Channel2Size >= 0 /\ LeftUnread = 4)
        => /\ result = "ok"
           /\ pos = Len(stream)
           /\ eblFile.Read = EndOfData + 4
           /\ ~Inconsistent

\* C6: trailing bytes are never fatal and are classified by their count: 40
\* left unread are left unconsumed and reported as the extra header, any other
\* count but 0 and 4 is reported as a size inconsistency.
C6_TrailingBytes ==
    (pc = "done" /\ result # "panic" /\ ~shortRead /\ audioPos > 0
       /\ eblFile.Channel1Size >= 0 /\ eblFile.Channel2Size >= 0 /\ LeftUnread >= 0)
        => /\ result = "ok"
           /\ LeftUnread = 40 => (pos = EndOfAudio /\ ExtraHeader /\ ~Inconsistent)
           /\ LeftUnread \notin {0, 4, 40} => (Inconsistent /\ ~ExtraHeader)

\* The branch of the end-of-file check a remainder selects
Classify(d) ==
    IF d = 0 THEN "none"
    ELSE IF d = 4 THEN "trailer"
    ELSE IF d = 40 THEN "extra"
    ELSE "inconsistent"

\* The branch the decode took
Taken ==
    IF Inconsistent THEN "inconsistent"
    ELSE IF ExtraHeader THEN "extra"
    ELSE IF difference = 4 THEN "trailer"
    ELSE "none"

DeclaredIn(s) == BE32(SubSeq(s, 5, 8))

\* C7 as stated: for a file read without short reads, the remainder that
\* selects the branch is the size declared in Header 1 (with or without the 8
\* bytes of Header 1 itself) less the bytes consumed.
C7_DeclaredSizeDrives ==
    (result = "ok" /\ ~shortRead) =>
        Taken \in {Classify(DeclaredIn(stream) - EndOfData),
                   Classify(DeclaredIn(stream) + 8 - EndOfData)}

\* C7, amended: the remainder that selects the branch is the size of the file
\* itself less the bytes consumed, whatever size Header 1 declares; the
\* declared size is stored in Header1.FileSize and the channel buffers have the
\* lengths computed from the words.
C7_FileSizeDrives ==
    result = "ok" =>
        /\ Taken = Classify(Len(stream) - EndOfData)
        /\ eblFile.Header1.FileSize = DeclaredIn(stream)
        /\ Len(eblFile.Channel1Data) = eblFile.Channel1Size
        /\ Len(eblFile.Channel2Data) = eblFile.Channel2Size

\* A declared size that would have selected another branch
C7_Witness ==
    /\ result = "ok"
    /\ Classify(DeclaredIn(stream) + 8 - EndOfData) # Classify(Len(stream) - EndOfData)
    /\ Classify(DeclaredIn(stream) - EndOfData) # Classify(Len(stream) - EndOfData)
    /\ Taken = "trailer"

\* C8: when the padding, read in full, begins with "E5S1" the rest of it is taken as the
\* fields of Header 4 (size from padding bytes 4..7, data from 8..13) and only
\* what the padding does not cover is read after it: Header 4 takes 14 bytes
\* from the start of the padding.
C8_OverlapHeader ==
    (pc = "hdata" /\ foundHeader4InPadding /\ ~shortRead) =>
        /\ pos - padPos = Header4Len
        /\ eblFile.Header4.Size = BE32(SubSeq(stream, padPos + 5, padPos + 8))
        /\ eblFile.Header4.Data = SubSeq(stream, padPos + 9, padPos + 14)

C10_TruncationFatal ==
    (pc = "done" /\ shortRead) => (result = "error" /\ returned = <<>>)

-----------------------------------------------------------------------------
(* Two files decoded one after the other, as the loop of ProcessDirectory  *)
(* does: the second differs from the first in an embedded filename only.   *)

\* Where the filename of Header 3 starts
OffsetName == 34

\* The stream with the filename of Header 3 replaced
Sibling(s, name) ==
    SubSeq(s, 1, OffsetName) \o Name64(name) \o SubSeq(s, OffsetPadding + 1, Len(s))

\* Files whose two embedded filenames agree
PairInputs ==
    WordInputs \cup RateInputs \cup {in \in CutInputs : in.cut >= OffsetPadding}

InitPair ==
    \E in \in PairInputs, dbg \in BOOLEAN :
        /\ stream = MakeStream(in)
        /\ debug = dbg
        /\ eblFile = NewEBLFile(Len(MakeStream(in)))
        /\ pos = 0
        /\ pc = "h1"
        /\ result = "none"
        /\ returned = <<>>
        /\ filename = <<>>
        /\ foundHeader4InPadding = FALSE
        /\ header4SizeBytes = <<>>
        /\ padPos = 0
        /\ audioPos = 0
        /\ shortRead = FALSE
        /\ difference = 0
        /\ log = {}
        /\ fs = {}
        /\ batch = Idle
        /\ pool = Idle
        /\ history = <<>>
        /\ encoder = DefaultEncoder
        /\ outDir = {}
        /\ calls = <<>>

\* The next file of the directory: ReadFile starts again on its stream
NextFile ==
    /\ pc = "done"
    /\ result \in {"ok", "error"}
    /\ history = <<>>
    /\ history' = <<[stream |-> stream, result |-> result, eblFile |-> eblFile,
                     log |-> log]>>
    /\ stream' = Sibling(stream, NameWarm)
    /\ eblFile' = NewEBLFile(Len(Sibling(stream, NameWarm)))
    /\ pos' = 0
    /\ pc' = "h1"
    /\ result' = "none"
    /\ returned' = <<>>
    /\ filename' = <<>>
    /\ foundHeader4InPadding' = FALSE
    /\ header4SizeBytes' = <<>>
    /\ padPos' = 0
    /\ audioPos' = 0
    /\ shortRead' = FALSE
    /\ difference' = 0
    /\ log' = {}
    /\ UNCHANGED <<debug, encoder, outDir, calls, sysVars>>

NextPair ==
    \/ ReadHeader1
    \/ ReadHeader2
    \/ ReadHeader3
    \/ ReadPadding
    \/ ReadHeader4
    \/ ReadHeaderData
    \/ CalcChannelSizes
    \/ ReadDataPadding
    \/ ReadChannel1
    \/ ReadChannel2
    \/ CheckTrailer
    \/ NextFile

SpecPair == InitPair /\ [][NextPair]_vars

\* The second file has been read, and its two filenames differ
SecondDone ==
    /\ pc = "done"
    /\ Len(history) = 1
    /\ eblFile.HeaderData.V # <<>> => eblFile.Header3.Filename # eblFile.HeaderData.FilenameStr

\* The stream holds the bytes of both channels after the pre-audio padding
EnoughPayload ==
    audioPos + Max(0, eblFile.Channel1Size) + Max(0, eblFile.Channel2Size) <= Len(stream)

\* The derived sizes are unequal and both non-zero
UnequalNonZero ==
    /\ eblFile.Channel1Size # eblFile.Channel2Size
    /\ eblFile.Channel1Size # 0
    /\ eblFile.Channel2Size # 0

\* C11: advisory anomalies never change the decode outcome.  A file whose two
\* embedded filenames differ decodes with the same success or failure and the
\* same channel data as the file that differs from it in that filename only;
\* and a file whose derived channel sizes are unequal and both non-zero, and
\* which holds enough payload bytes, decodes successfully with those sizes.
C11_AdvisoryNeverFatal ==
    /\ SecondDone =>
          /\ result = history[1].result
          /\ result = "ok" =>
                /\ eblFile.Channel1Data = history[1].eblFile.Channel1Data
                /\ eblFile.Channel2Data = history[1].eblFile.Channel2Data
    /\ (pc = "done" /\ audioPos > 0 /\ UnequalNonZero /\ EnoughPayload) =>
          /\ result = "ok"
          /\ Len(eblFile.Channel1Data) = eblFile.Channel1Size
          /\ Len(eblFile.Channel2Data) = eblFile.Channel2Size

-----------------------------------------------------------------------------
(* The decoded structure and the file WriteWAV makes of it *)

\* C12: in every successfully decoded structure the length of the channel A
\* buffer is a multiple of 2.
C12_ChannelAEven ==
    result = "ok" => Len(eblFile.Channel1Data) % 2 = 0

\* The last call of WriteWAV returned a name and no error
LastOK == calls # <<>> /\ ~calls[Len(calls)].err

\* The bytes of the file the last call wrote
Output ==
    LET name == calls[Len(calls)].name
    IN IF \E o \in outDir : o.name = name
       THEN (CHOOSE o \in outDir : o.name = name).data
       ELSE <<>>

\* Fields of the output header, by their offsets in the file
LE16(b) == b[1] + 256 * b[2]
Field16(d, off) == LE16(SubSeq(d, off + 1, off + 2))
Field32(d, off) == LE32(SubSeq(d, off + 1, off + 4))
WavHeaderLen == 44
OutFileSize == Field32(Output, 4)
OutFmtSize == Field32(Output, 16)
OutFormat == Field16(Output, 20)
OutChannels == Field16(Output, 22)
OutSampleRate == Field32(Output, 24)
OutByteRate == SubSeq(Output, 29, 32)
OutBlockAlign == Field16(Output, 32)
OutBitsPerSample == Field16(Output, 34)
OutDataSize == Field32(Output, 40)
OutPayload == SubSeq(Output, WavHeaderLen + 1, Len(Output))

\* A file was written in full by the last call
Wrote == LastOK /\ ~encoder.noWrite /\ Len(Output) >= WavHeaderLen

\* C13: the channel count written in the output header is 1 if and only if the
\* channel B buffer of the decoded structure is empty, and 2 otherwise; the
\* payload is channel A unchanged in the mono case and the interleaved buffer
\* in the stereo case.
C13_MonoStereoDecision ==
    (LastOK /\ ~encoder.noWrite) =>
        /\ Len(Output) >= WavHeaderLen
        /\ OutChannels \in {1, 2}
        /\ OutChannels = 1 <=> eblFile.Channel2Data = <<>>
        /\ eblFile.Channel2Data = <<>> => OutPayload = eblFile.Channel1Data
        /\ eblFile.Channel2Data # <<>> =>
              OutPayload = interleaveChannels(eblFile.Channel1Data,
                                              eblFile.Channel2Data)

\* A stereo structure with samples in both channels was written
C13_Witness ==
    /\ Wrote
    /\ Len(eblFile.Channel1Data) >= 2
    /\ Len(eblFile.Channel2Data) >= 2
    /\ OutChannels = 2

\* The payload WriteWAV is to write for the decoded structure
Payload ==
    IF eblFile.Channel2Data = <<>> THEN eblFile.Channel1Data
    ELSE interleaveChannels(eblFile.Channel1Data, eblFile.Channel2Data)

\* C16: the output is exactly a 44-byte header followed by the payload, with
\* block_align = channels * 2, bits-per-sample = 16, format tag = 1, fmt
\* sub-chunk size = 16, data-size field = payload length and file-size field =
\* 36 + payload length; hence the output length is the file-size field + 8.
C16_OutputLayout ==
    (LastOK /\ ~encoder.noWrite) =>
        /\ Len(Output) = WavHeaderLen + Len(Payload)
        /\ OutPayload = Payload
        /\ SubSeq(Output, 1, 4) = RIFF
        /\ SubSeq(Output, 9, 12) = WAVE
        /\ SubSeq(Output, 13, 16) = FmtID
        /\ SubSeq(Output, 37, 40) = DataID
        /\ OutBlockAlign = OutChannels * 2
        /\ OutBitsPerSample = 16
        /\ OutFormat = 1
        /\ OutFmtSize = 16
        /\ OutDataSize = Len(Payload)
        /\ OutFileSize = 36 + Len(Payload)
        /\ Len(Output) = OutFileSize + 8

\* A file with a payload was written
C16_Witness ==
    /\ Wrote
    /\ Len(Payload) > 0
    /\ Len(Output) > WavHeaderLen

\* Where the twelve words of the fixed metadata block start in the stream
WordsPos == audioPos - Max(0, dataPadding(eblFile)) - CommentLen - 48
\* Word i of the stream, v1 being word 1
WordOf(i) == LE32(SubSeq(stream, WordsPos + 4 * i - 3, WordsPos + 4 * i))

\* The stream is whole and its words say mono: v3 = v2 and v5 = v4
WellFormedMono ==
    /\ result = "ok"
    /\ ~shortRead
    /\ WordOf(3) = WordOf(2)
    /\ WordOf(5) = WordOf(4)

-----------------------------------------------------------------------------
(* The two pure functions of the encoder, applied to arguments drawn at the *)
(* start: history holds the arguments, calls the calls made and their      *)
(* results.                                                                 *)

\* The longest channel buffer and the longest name drawn
MaxBuf == 5
MaxName == 4

\* Byte values of the left and of the right channel, none of them 0
LeftBytes == {1, 2}
RightBytes == {3, 4}
\* 'A', '_', ' ', '/' and U+00E9
NameChars == {65, 95, 32, 47, 233}

SeqsUpTo(S, n) == UNION {[1..k -> S] : k \in 0..n}

\* Two samples a channel: L0 = 1 2, L1 = 2 1, R0 = 3 4, R1 = 4 3
ExampleLeft == <<1, 2, 2, 1>>
ExampleRight == <<3, 4, 4, 3>>

FnArgs ==
    {[channel1 |-> a, channel2 |-> b, filename |-> <<>>] :
        a \in SeqsUpTo(LeftBytes, MaxBuf), b \in SeqsUpTo(RightBytes, MaxBuf)}
    \cup {[channel1 |-> ExampleLeft, channel2 |-> ExampleRight, filename |-> n] :
        n \in SeqsUpTo(NameChars, MaxName)}

InitFn ==
    \E args \in FnArgs :
        /\ history = <<args>>
        /\ calls = <<>>
        /\ stream = <<>>
        /\ debug = FALSE
        /\ eblFile = NewEBLFile(0)
        /\ pos = 0
        /\ pc = "idle"
        /\ result = "none"
        /\ returned = <<>>
        /\ filename = <<>>
        /\ foundHeader4InPadding = FALSE
        /\ header4SizeBytes = <<>>
        /\ padPos = 0
        /\ audioPos = 0
        /\ shortRead = FALSE
        /\ difference = 0
        /\ log = {}
        /\ fs = {}
        /\ batch = Idle
        /\ pool = Idle
        /\ encoder = DefaultEncoder
        /\ outDir = {}

\* interleaveChannels(channel1, channel2)
CallInterleave ==
    /\ pc = "idle"
    /\ \A i \in 1..Len(calls) : calls[i].fn # "interleaveChannels"
    /\ calls' = Append(calls,
          [fn |-> "interleaveChannels",
           channel1 |-> history[1].channel1, channel2 |-> history[1].channel2,
           result |-> interleaveChannels(history[1].channel1, history[1].channel2)])
    /\ UNCHANGED <<stream, pos, pc, result, returned, eblFile, filename,
                   foundHeader4InPadding, header4SizeBytes, padPos, audioPos,
                   shortRead, difference, debug, log, history, encoder, outDir,
                   sysVars>>

\* cleanFilename(filename)
CallCleanFilename ==
    /\ pc = "idle"
    /\ \A i \in 1..Len(calls) : calls[i].fn # "cleanFilename"
    /\ calls' = Append(calls,
          [fn |-> "cleanFilename", filename |-> history[1].filename,
           result |-> cleanFilename(history[1].filename)])
    /\ UNCHANGED <<stream, pos, pc, result, returned, eblFile, filename,
                   foundHeader4InPadding, header4SizeBytes, padPos, audioPos,
                   shortRead, difference, debug, log, history, encoder, outDir,
                   sysVars>>

NextFn ==
    \/ CallInterleave
    \/ CallCleanFilename

SpecFn == InitFn /\ [][NextFn]_vars

\* The calls of one function
CallsOf(fn) == {calls[i] : i \in {j \in 1..Len(calls) : calls[j].fn = fn}}

\* Buffer b holds both bytes of sample i, samples counted from 0
HasSample(b, i) == 2 * i + 2 <= Len(b)

\* C14: interleaveChannels(A, B) has length (len(A)/2)*4; for every sample
\* index i < len(A)/2 its bytes 4i, 4i+1 are A[2i], A[2i+1] and its bytes 4i+2,
\* 4i+3 are B[2i], B[2i+1] when B contains sample i and zero otherwise; it
\* does not fail when B is shorter than A.  For the samples L0, L1 of A and
\* R0, R1 of B the result is L0 R0 L1 R1.
C14_Interleave ==
    \A c \in CallsOf("interleaveChannels") :
        /\ Len(c.result) = (Len(c.channel1) \div 2) * 4
        /\ \A i \in 0..((Len(c.channel1) \div 2) - 1) :
              /\ 4 * i + 4 <= Len(c.result)
              /\ c.result[4 * i + 1] = c.channel1[2 * i + 1]
              /\ c.result[4 * i + 2] = c.channel1[2 * i + 2]
              /\ HasSample(c.channel2, i) =>
                    /\ c.result[4 * i + 3] = c.channel2[2 * i + 1]
                    /\ c.result[4 * i + 4] = c.channel2[2 * i + 2]
              /\ ~HasSample(c.channel2, i) =>
                    /\ c.result[4 * i + 3] = 0
                    /\ c.result[4 * i + 4] = 0
        /\ (c.channel1 = ExampleLeft /\ c.channel2 = ExampleRight) =>
              c.result = <<1, 2, 3, 4, 2, 1, 4, 3>>

\* Two samples on the left, one on the right: the second right sample is zero
C14_Witness ==
    \E c \in CallsOf("interleaveChannels") :
        /\ Len(c.channel1) = 4
        /\ Len(c.channel2) = 2
        /\ c.result[7] = 0
        /\ c.result[3] = c.channel2[1]

\* The positions of str that give a character of the result: every allowed
\* character and the first character of every run of others
Kept(str) ==
    LET Starts(i) == Allowed(str[i]) \/ i = 1 \/ Allowed(str[i - 1])
    IN SelectSeq([i \in 1..Len(str) |-> i], Starts)

\* C19 as stated: cleanFilename returns a string of the same length in which
\* every allowed character is unchanged at its position and every other
\* character is replaced by exactly one '_'.
C19_CharacterWise ==
    \A c \in CallsOf("cleanFilename") :
        /\ Len(c.result) = Len(c.filename)
        /\ \A i \in 1..Len(c.filename) :
              c.result[i] = IF Allowed(c.filename[i]) THEN c.filename[i] ELSE 95

\* C19, amended: cleanFilename keeps every allowed character, in order, and
\* replaces every maximal run of other characters by exactly one '_'; the
\* result has the length of the name less the characters of the runs after
\* their first.
C19_RunWise ==
    \A c \in CallsOf("cleanFilename") :
        LET kept == Kept(c.filename)
        IN /\ Len(c.result) = Len(kept)
           /\ \A k \in 1..Len(kept) :
                 c.result[k] = IF Allowed(c.filename[kept[k]])
                               THEN c.filename[kept[k]] ELSE 95

\* A name with a run of two characters that are not allowed
C19_Witness ==
    \E c \in CallsOf("cleanFilename") :
        /\ Len(c.filename) = 4
        /\ Allowed(c.filename[1])
        /\ ~Allowed(c.filename[2])
        /\ ~Allowed(c.filename[3])
        /\ Allowed(c.filename[4])
        /\ Len(c.result) = 3

-----------------------------------------------------------------------------
(* The derived header fields *)

\* The sample rate and the channel count of the decoded structure
RateOf == SampleRate(eblFile.HeaderData)
MaxU32Half == 2147483647

\* C15: whenever sample_rate * channels * 2 fits in an unsigned 32-bit field,
\* the ByteRate written in the output header is sample_rate * channels * 16/8.
C15_ByteRate ==
    (LastOK /\ ~encoder.noWrite /\ Len(Output) >= WavHeaderLen
       /\ OutChannels \in {1, 2}
       /\ RateOf * OutChannels <= MaxU32Half) =>
        OutByteRate = PutU32(MulU32(U32(RateOf), OutChannels * 2))

-----------------------------------------------------------------------------
(* ConvertFile with each choice of the options of the encoder: files that   *)
(* differ in their names are decoded and then written.                      *)

\* "A.EBL" and "x", names of input files
UpperFilename == <<65, 46, 69, 66, 76>>
BareFilename == <<120>>
\* "a b", an embedded name with a character that is not allowed
NameSpaced == <<97, 32, 98>>
\* "Bank", the name of an EXB file
ExbBank == <<66, 97, 110, 107>>

EmbeddedNames == {<<>>, NamePad, NameWarm, NameSpaced}

\* Files that differ in their two embedded names
EncInputs ==
    {[DefaultInput EXCEPT !.n1 = a, !.n2 = b] :
        a \in EmbeddedNames, b \in EmbeddedNames}

\* wav.NewEncoder with each choice of options
Encoders ==
    {[noWrite |-> nw, preserveFilename |-> pf, exbName |-> exb] :
        nw \in BOOLEAN, pf \in BOOLEAN, exb \in {<<>>, ExbBank}}

\* "Pad.wav" in the output directory before anything is written
PreExisting == {[name |-> NamePad \o DotWav, data |-> <<>>]}

InitEnc ==
    \E in \in EncInputs, fn \in {InputFilename, UpperFilename, BareFilename},
       e \in Encoders, taken \in BOOLEAN :
        /\ stream = MakeStream(in)
        /\ eblFile = [NewEBLFile(Len(MakeStream(in))) EXCEPT !.Filename = fn]
        /\ encoder = e
        /\ outDir = IF taken THEN PreExisting ELSE {}
        /\ calls = <<>>
        /\ history = <<>>
        /\ debug = FALSE
        /\ pos = 0
        /\ pc = "h1"
        /\ result = "none"
        /\ returned = <<>>
        /\ filename = <<>>
        /\ foundHeader4InPadding = FALSE
        /\ header4SizeBytes = <<>>
        /\ padPos = 0
        /\ audioPos = 0
        /\ shortRead = FALSE
        /\ difference = 0
        /\ log = {}
        /\ fs = {}
        /\ batch = Idle
        /\ pool = Idle

NextEnc ==
    \/ ReadHeader1
    \/ ReadHeader2
    \/ ReadHeader3
    \/ ReadPadding
    \/ ReadHeader4
    \/ ReadHeaderData
    \/ CalcChannelSizes
    \/ ReadDataPadding
    \/ ReadChannel1
    \/ ReadChannel2
    \/ CheckTrailer
    \/ WriteWAV

SpecEnc == InitEnc /\ [][NextEnc]_vars

\* The name without its extension: what comes before its last '.'
StripExt(name) ==
    LET dots == {i \in 1..Len(name) : name[i] = 46}
    IN IF dots = {} THEN name
       ELSE SubSeq(name, 1, (CHOOSE i \in dots : \A j \in dots : j <= i) - 1)

\* The base name of an output name: without the prefix and without ".wav"
BaseOf(name) ==
    LET pre == IF encoder.exbName # <<>> THEN encoder.exbName \o Dash ELSE <<>>
    IN SubSeq(name, Len(pre) + 1, Len(name) - Len(DotWav))

\* The sanitized embedded names of the structure
CleanData == cleanFilename(eblFile.HeaderData.FilenameStr)
CleanHeader3 == cleanFilename(eblFile.Header3.Filename)

\* C18: the base name is the source filename with its extension stripped if
\* the preserve policy is active; otherwise the sanitized filename of the
\* fixed metadata block; if and only if that is empty, the sanitized filename
\* of the metadata-frame header; if and only if both are empty, the source
\* filename with its extension stripped.
C18_NamePriority ==
    \A i \in 1..Len(calls) :
        ~calls[i].err =>
            BaseOf(calls[i].name) =
                IF encoder.preserveFilename THEN StripExt(eblFile.Filename)
                ELSE IF CleanData # <<>> THEN CleanData
                ELSE IF CleanHeader3 # <<>> THEN CleanHeader3
                ELSE StripExt(eblFile.Filename)

\* C20: encoding the same decoded structure twice with the same naming policy
\* yields the same output filename, whatever the output directory holds and
\* whatever calls the encoder served before.
C20_NamingDeterministic ==
    \A i \in 1..Len(calls) : \A j \in 1..Len(calls) :
        (~calls[i].err /\ ~calls[j].err) => calls[i].name = calls[j].name

\* Two calls that wrote: the second found the file of the first in place
C20_Witness ==
    /\ Len(calls) >= 2
    /\ ~calls[1].err
    /\ ~calls[2].err
    /\ ~encoder.noWrite
    /\ \E o \in outDir : o.name = calls[2].name /\ Len(o.data) > WavHeaderLen

-----------------------------------------------------------------------------
(* The converter: ProcessDirectory over the .ebl files of one directory,   *)
(* ConvertFile on each, saveErrorFile on the files that fail.  A directory *)
(* is the sequence of the components of its path, a file of fs a record of *)
(* its directory, its name and its content.                                *)

\* The decoder's variables
readVars == <<stream, pos, pc, result, returned, eblFile, filename,
              foundHeader4InPadding, header4SizeBytes, padPos, audioPos,
              shortRead, difference, log>>

\* The most files in the input directory
MaxFiles == MaxCalls

\* filepath.Join(dir, name)
Join(dir, name) == Append(dir, name)

\* filepath.Ext: from the last '.' of the name on, "" if it has none
Ext(name) ==
    LET dots == {i \in 1..Len(name) : name[i] = 46}
    IN IF dots = {} THEN <<>>
       ELSE SubSeq(name, CHOOSE i \in dots : \A j \in dots : j <= i, Len(name))

\* strings.ToLower, on the ASCII letters
ToLower(str) == [i \in 1..Len(str) |-> IF str[i] >= 65 /\ str[i] <= 90
                                        THEN str[i] + 32 ELSE str[i]]

\* The directories of a run: the output directory, and for the input either
\* a directory of its own or the "errors" directory of the output
OutputDir == <<"out">>
InputDirs == {<<"in">>, Join(OutputDir, "errors")}

\* "a.ebl", "b.EBL", "c.ebl", ...: the k-th file of the input directory
FileName(k) == <<96 + k>> \o (IF k = 2 THEN <<46, 69, 66, 76>> ELSE DotEbl)
\* "notes.txt"
OtherName == <<110, 46, 116, 120, 116>>

\* What the files hold: a file that decodes, one with a wrong first magic,
\* one cut in its audio data, one whose words give a negative size
GoodStream == MakeStream(DefaultInput)
BadMagicStream == MakeStream([DefaultInput EXCEPT !.m1 = <<0, 79, 82, 77>>])
CutStream == SubSeq(GoodStream, 1, Len(GoodStream) - 2)
NegativeStream == MakeStream([DefaultInput EXCEPT !.w = <<184, 182, 182, 185>>])
Streams == {GoodStream, BadMagicStream, CutStream, NegativeStream}

\* converter.Options
BatchOptions ==
    {[Debug |-> d, NoWrite |-> nw, ErrorSave |-> es] :
        d \in BOOLEAN, nw \in BOOLEAN, es \in BOOLEAN}

\* The file of a directory with a name, as a set: empty if there is none
FileAt(files, dir, base) == {f \in files : f.dir = dir /\ f.base = base}

\* The names filepath.Walk hands on: the .ebl files of the directory, in
\* lexical order (the names drawn differ in their first character)
Discovered(files, dir) ==
    LET names == {f.base : f \in {g \in files : g.dir = dir /\ ToLower(Ext(g.base)) = DotEbl}}
        Rank(n) == Cardinality({m \in names : m[1] < n[1]}) + 1
    IN [k \in 1..Cardinality(names) |-> CHOOSE n \in names : Rank(n) = k]

\* os.Open, file.Stat and the construction of eblFile for the next file
StartReadFile(s, base) ==
    /\ stream' = s
    /\ eblFile' = [NewEBLFile(Len(s)) EXCEPT !.Filename = base]
    /\ pos' = 0
    /\ pc' = "h1"
    /\ result' = "none"
    /\ returned' = <<>>
    /\ filename' = <<>>
    /\ foundHeader4InPadding' = FALSE
    /\ header4SizeBytes' = <<>>
    /\ padPos' = 0
    /\ audioPos' = 0
    /\ shortRead' = FALSE
    /\ difference' = 0
    /\ log' = {}

\* saveErrorFile: what the files can be after it.  Nothing changes if the
\* options say so or MkdirAll, os.Open or os.Create fails; os.Create empties
\* the file at errorDir/base, and io.Copy writes into it what it then reads
\* from the input file, all of it or, if it fails, a part
saveErrorFile(files, dir, base, errorDir, opts) ==
    IF ~opts.ErrorSave \/ opts.NoWrite THEN {files}
    ELSE LET created == (files \ FileAt(files, errorDir, base))
                        \cup {[dir |-> errorDir, base |-> base, data |-> <<>>]}
             source == FileAt(created, dir, base)
             copied(n) == (created \ FileAt(created, errorDir, base))
                          \cup {[dir |-> errorDir, base |-> base,
                                 data |-> SubSeq(f.data, 1, n)] : f \in source}
         IN {files} \cup
            (IF source = {} THEN {}
             ELSE {copied(n) : n \in UNION {{0, Len(f.data) \div 2, Len(f.data)} :
                                             f \in source}})

InitBatch ==
    \E n \in 1..MaxFiles, dir \in InputDirs, opts \in BatchOptions :
      \E content \in [1..n -> Streams] :
        /\ fs = {[dir |-> dir, base |-> FileName(k), data |-> content[k]] : k \in 1..n}
                \cup {[dir |-> dir, base |-> OtherName, data |-> <<1>>]}
        /\ batch = [state |-> "walk", inputDir |-> dir, outputDir |-> OutputDir,
                    options |-> opts, files |-> <<>>, before |-> {}, i |-> 0,
                    converted |-> 0, successes |-> 0, ran |-> <<>>,
                    callsAtStart |-> 0, mkdirFailed |-> FALSE, err |-> FALSE]
        /\ pool = Idle
        /\ encoder = [noWrite |-> opts.NoWrite, preserveFilename |-> FALSE,
                      exbName |-> <<>>]
        /\ debug = opts.Debug
        /\ outDir = {}
        /\ calls = <<>>
        /\ history = <<>>
        /\ stream = <<>>
        /\ eblFile = NewEBLFile(0)
        /\ pos = 0
        /\ pc = "idle"
        /\ result = "none"
        /\ returned = <<>>
        /\ filename = <<>>
        /\ foundHeader4InPadding = FALSE
        /\ header4SizeBytes = <<>>
        /\ padPos = 0
        /\ audioPos = 0
        /\ shortRead = FALSE
        /\ difference = 0
        /\ log = {}

\* filepath.Walk: the .ebl files of the input directory
Walk ==
    /\ batch.state = "walk"
    /\ batch' = [batch EXCEPT !.state = "mkdir",
                              !.files = Discovered(fs, batch.inputDir),
                              !.before = fs]
    /\ UNCHANGED <<readVars, debug, wavVars, fs, pool>>

\* The content of the file ConvertFile is called on
ContentOf(files, dir, base) ==
    IF FileAt(files, dir, base) = {} THEN <<>>
    ELSE (CHOOSE f \in FileAt(files, dir, base) : TRUE).data

\* os.MkdirAll of the output directory, unless NoWrite; then the first call
\* of ConvertFile
MkdirAll ==
    /\ batch.state = "mkdir"
    /\ \E failed \in (IF batch.options.NoWrite THEN {FALSE} ELSE BOOLEAN) :
         IF failed
         THEN /\ batch' = [batch EXCEPT !.state = "returned", !.err = TRUE,
                                        !.mkdirFailed = TRUE]
              /\ UNCHANGED readVars
         ELSE IF batch.files = <<>>
         THEN /\ batch' = [batch EXCEPT !.state = "returned"]
              /\ UNCHANGED readVars
         ELSE /\ batch' = [batch EXCEPT !.state = "running", !.i = 1,
                                        !.ran = <<batch.files[1]>>,
                                        !.callsAtStart = Len(calls)]
              /\ StartReadFile(ContentOf(fs, batch.inputDir, batch.files[1]),
                               batch.files[1])
    /\ UNCHANGED <<debug, wavVars, fs, pool>>

\* ConvertFile returns: after a ReadFile error, or after WriteWAV.  A failure
\* is handed to saveErrorFile; the loop counts a success and goes on to the
\* next file, or ProcessDirectory returns nil after the last one
ConvertFileReturn ==
    /\ batch.state = "running"
    /\ pc = "done"
    /\ \/ result = "error"
       \/ result = "ok" /\ Len(calls) = batch.callsAtStart + 1
    /\ LET success == result = "ok" /\ ~calls[Len(calls)].err
           base == batch.files[batch.i]
           errorDir == Join(batch.outputDir, "errors")
           err == ~success
           counted == [batch EXCEPT
                          !.converted = IF err /\ batch.options.Debug THEN @
                                        ELSE IF success THEN @ + 1 ELSE @,
                          !.successes = IF success THEN @ + 1 ELSE @]
       IN /\ fs' \in (IF success THEN {fs}
                      ELSE saveErrorFile(fs, batch.inputDir, base, errorDir,
                                         batch.options))
          /\ IF batch.i = Len(batch.files)
             THEN /\ batch' = [counted EXCEPT !.state = "returned"]
                  /\ UNCHANGED readVars
             ELSE /\ batch' = [counted EXCEPT
                                  !.i = @ + 1,
                                  !.ran = Append(@, batch.files[batch.i + 1]),
                                  !.callsAtStart = Len(calls)]
                  /\ StartReadFile(ContentOf(fs', batch.inputDir,
                                             batch.files[batch.i + 1]),
                                   batch.files[batch.i + 1])
    /\ UNCHANGED <<debug, wavVars, pool>>

\* A panic in ReadFile ends the process, and the run with it
Crash ==
    /\ batch.state = "running"
    /\ pc = "done"
    /\ result = "panic"
    /\ batch' = [batch EXCEPT !.state = "crashed"]
    /\ UNCHANGED <<readVars, debug, wavVars, fs, pool>>

NextBatch ==
    \/ Walk
    \/ MkdirAll
    \/ ReadHeader1
    \/ ReadHeader2
    \/ ReadHeader3
    \/ ReadPadding
    \/ ReadHeader4
    \/ ReadHeaderData
    \/ CalcChannelSizes
    \/ ReadDataPadding
    \/ ReadChannel1
    \/ ReadChannel2
    \/ CheckTrailer
    \/ WriteWAV
    \/ ConvertFileReturn
    \/ Crash

SpecBatch == InitBatch /\ [][NextBatch]_vars

\* The run of ProcessDirectory is over
RunOver == batch.state \in {"returned", "crashed"}

\* The input files found at the start
SourceFiles ==
    {f \in batch.before : f.dir = batch.inputDir /\ ToLower(Ext(f.base)) = DotEbl}

\* C21: source files are never modified.  With any options, input path and
\* output directory, the content of each input .ebl file after the run is
\* its content before the run.
C21_SourcesUntouched ==
    batch.state \in {"running", "returned", "crashed"} =>
        \A f \in SourceFiles : f \in fs

-----------------------------------------------------------------------------
(* The pre-audio padding and the buffer lengths of ReadFile *)

\* The offset at which the fixed metadata block ends, by what ReadFile took
\* for the alignment gap, the second frame header and the block
MetaEnd == padPos + eblFile.Padding + eblFile.Header4.Read + HeaderDataRead

\* v5 - (channel_a_size + channel_b_size) - 178
PreAudioPadding ==
    V5(eblFile.HeaderData) - (eblFile.Channel1Size + eblFile.Channel2Size)
        - DataPaddingBase

\* C22: after the fixed metadata block the decoder discards exactly
\* v5 - (channel_a_size + channel_b_size) - 178 bytes when that number is
\* positive and nothing when it is zero or negative; the first byte of channel
\* A is the stream byte immediately after the discarded run.
C22_PreAudioPadding ==
    (result = "ok" /\ Len(stream) >= MetaEnd) =>
        /\ audioPos - MetaEnd = Max(0, PreAudioPadding)
        /\ audioPos <= Len(stream)
        /\ eblFile.Channel1Data # <<>> =>
              /\ audioPos < Len(stream)
              /\ eblFile.Channel1Data[1] = stream[audioPos + 1]

\* C24: decode never aborts abnormally.  ReadFile returns a decoded structure
\* or an error for every input stream and all values of the words: no buffer
\* length it allocates or reads with is negative, so nothing crashes.
C24_NoCrash ==
    /\ result # "panic"
    /\ pc = "done" => result \in {"ok", "error"}
    /\ pc \in {"ch2", "trailer"} => eblFile.Channel1Size >= 0
    /\ pc = "trailer" => eblFile.Channel2Size >= 0

\* C23: a failing file never aborts a batch.  Provided the output directory
\* can be created, ProcessDirectory calls ConvertFile exactly once for every
\* discovered .ebl file, however many earlier files failed to decode or
\* encode, returns no error, and its converted count is the number of files
\* whose ConvertFile reported success.
C23_BatchNeverAborts ==
    (RunOver /\ ~batch.mkdirFailed) =>
        /\ batch.state = "returned"
        /\ batch.ran = batch.files
        /\ ~batch.err
        /\ batch.converted = batch.successes
        /\ batch.converted <= Len(batch.files)

-----------------------------------------------------------------------------
(* The FLAC converter (package flac): ConvertDirectory hands the WAV files  *)
(* of the output directory to a pool of workers over the jobs channel, each *)
(* worker runs ConvertToFlac on the files it receives and sends what it     *)
(* returned on the results channel.  The files are those of outDir.         *)

\* The most WAV files in the directory, and the most CPU cores
MaxWav == 3
MaxCPU == 4

DotFlac == <<46, 102, 108, 97, 99>>
\* "a.wav", "b.WAV", "c.wav", ...
WavName(k) == <<96 + k>> \o (IF k = 2 THEN <<46, 87, 65, 86>> ELSE DotWav)
\* flacFile := strings.TrimSuffix(wavFile, ".wav") + ".flac"
FlacName(wavFile) == TrimSuffix(wavFile, DotWav) \o DotFlac

\* maxWorkers := max(2, min(numCPU*3/4, 12))
maxWorkers(numCPU) == Max(2, Min((numCPU * 3) \div 4, 12))
\* numWorkers := min(c.maxWorkers, len(wavFiles))
numWorkers(maxW, n) == Min(maxW, n)

\* a results channel that holds nothing: every send waits for its receive
ResultsCap_Unbuffered(n) == 0
\* make(chan error, len(wavFiles))
ResultsCap(n) == n
\* make(chan string, len(wavFiles))
JobsCap(n) == n

\* the WAV file removed whatever the encoder returned
AfterRun_Remove(ok) == "remove"
\* After cmd.Run: os.Remove if it returned nil, else the error is returned
AfterRun(ok) == IF ok THEN "remove" ELSE "send"

\* The names of the files on disk
OnDisk == {o.name : o \in outDir}

\* The .wav files filepath.Walk finds, in lexical order (the names drawn
\* differ in their first character)
WavFiles ==
    LET names == {n \in OnDisk : ToLower(Ext(n)) = DotWav}
        Rank(n) == Cardinality({m \in names : m[1] < n[1]}) + 1
    IN [k \in 1..Cardinality(names) |-> CHOOSE n \in names : Rank(n) = k]

InitFlac ==
    \E n \in 1..MaxWav, numCPU \in 1..MaxCPU :
        /\ outDir = {[name |-> WavName(k), data |-> <<k>>] : k \in 1..n}
        /\ pool = [state |-> "walk", maxWorkers |-> maxWorkers(numCPU),
                   files |-> <<>>, workers |-> <<>>, jobs |-> <<>>,
                   jobsClosed |-> FALSE, sent |-> 0, results |-> <<>>,
                   collected |-> 0, errorCount |-> 0, err |-> FALSE,
                   finished |-> {}, removed |-> {}, vanished |-> {}]
        /\ debug = FALSE
        /\ batch = Idle
        /\ fs = {}
        /\ encoder = DefaultEncoder
        /\ calls = <<>>
        /\ history = <<>>
        /\ stream = <<>>
        /\ eblFile = NewEBLFile(0)
        /\ pos = 0
        /\ pc = "idle"
        /\ result = "none"
        /\ returned = <<>>
        /\ filename = <<>>
        /\ foundHeader4InPadding = FALSE
        /\ header4SizeBytes = <<>>
        /\ padPos = 0
        /\ audioPos = 0
        /\ shortRead = FALSE
        /\ difference = 0
        /\ log = {}

\* What the FLAC converter leaves alone
flacFrame == <<readVars, debug, history, encoder, calls, fs, batch>>

\* filepath.Walk, the two channels and the start of the workers
FlacWalk ==
    /\ pool.state = "walk"
    /\ LET files == WavFiles
       IN pool' = [pool EXCEPT
              !.state = IF files = <<>> THEN "returned" ELSE "send",
              !.files = files,
              !.workers = [w \in 1..numWorkers(pool.maxWorkers, Len(files)) |->
                             [pc |-> "recv", job |-> <<>>, err |-> FALSE,
                              outcome |-> "none"]]]
    /\ UNCHANGED <<flacFrame, outDir>>

\* Another program deletes the WAV file walked last, after the walk and
\* before any file is converted
Vanish ==
    /\ pool.state = "send"
    /\ pool.sent = 0
    /\ pool.vanished = {}
    /\ LET gone == pool.files[Len(pool.files)]
       IN /\ outDir' = {o \in outDir : o.name # gone}
          /\ pool' = [pool EXCEPT !.vanished = {gone}]
    /\ UNCHANGED flacFrame

\* jobs <- wavFile
SendJob ==
    /\ pool.state = "send"
    /\ pool.sent < Len(pool.files)
    /\ Len(pool.jobs) < JobsCap(Len(pool.files))
    /\ pool' = [pool EXCEPT !.jobs = Append(@, pool.files[pool.sent + 1]),
                            !.sent = @ + 1]
    /\ UNCHANGED <<flacFrame, outDir>>

\* close(jobs), then wg.Wait()
CloseJobs ==
    /\ pool.state = "send"
    /\ pool.sent = Len(pool.files)
    /\ pool' = [pool EXCEPT !.jobsClosed = TRUE, !.state = "wait"]
    /\ UNCHANGED <<flacFrame, outDir>>

\* for wavFile := range jobs: the next job and, in ConvertToFlac, os.Stat of
\* the input file; or the end of the worker when the channel is closed and
\* empty
Receive(w) ==
    /\ pool.workers[w].pc = "recv"
    /\ \/ /\ pool.jobs # <<>>
          /\ LET job == Head(pool.jobs)
                 exists == job \in OnDisk
             IN pool' = [pool EXCEPT
                    !.jobs = Tail(@),
                    !.workers[w] = [pc |-> IF exists THEN "run" ELSE "send",
                                    job |-> job, err |-> ~exists,
                                    outcome |-> IF exists THEN "none" ELSE "missing"]]
       \/ /\ pool.jobs = <<>>
          /\ pool.jobsClosed
          /\ pool' = [pool EXCEPT !.workers[w].pc = "done"]
    /\ UNCHANGED <<flacFrame, outDir>>

\* ConvertToFlac: cmd.Run of the encoder, which succeeds or fails; a run that
\* succeeds has written the FLAC file next to the WAV file (what a failed run
\* leaves of the FLAC file is left out, the WAV file it only reads)
RunEncoder(w) ==
    /\ pool.workers[w].pc = "run"
    /\ \E ok \in BOOLEAN :
         LET job == pool.workers[w].job
             flac == [name |-> FlacName(job), data |-> <<70>>]
         IN /\ outDir' = IF ok
                         THEN {o \in outDir : o.name # flac.name} \cup {flac}
                         ELSE outDir
            /\ pool' = [pool EXCEPT
                   !.workers[w].pc = AfterRun(ok),
                   !.workers[w].err = ~ok,
                   !.workers[w].outcome = IF ok THEN "encoded" ELSE "runfail"]
    /\ UNCHANGED flacFrame

\* ConvertToFlac: os.Remove of the WAV file
Remove(w) ==
    /\ pool.workers[w].pc = "remove"
    /\ \E ok \in BOOLEAN :
         LET job == pool.workers[w].job
         IN /\ outDir' = IF ok THEN {o \in outDir : o.name # job} ELSE outDir
            /\ pool' = [pool EXCEPT
                   !.workers[w].pc = "send",
                   !.workers[w].err = ~ok,
                   !.workers[w].outcome = IF ok THEN "ok" ELSE "removefail",
                   !.removed = IF ok THEN @ \cup {job} ELSE @]
    /\ UNCHANGED flacFrame

\* results <- err
SendResult(w) ==
    /\ pool.workers[w].pc = "send"
    /\ Len(pool.results) < ResultsCap(Len(pool.files))
    /\ pool' = [pool EXCEPT
           !.results = Append(@, pool.workers[w].err),
           !.finished = @ \cup {[file |-> pool.workers[w].job,
                                  err |-> pool.workers[w].err,
                                  outcome |-> pool.workers[w].outcome]},
           !.workers[w].pc = "recv"]
    /\ UNCHANGED <<flacFrame, outDir>>

\* wg.Wait() returns when every worker is done; close(results)
WaitWorkers ==
    /\ pool.state = "wait"
    /\ \A w \in 1..Len(pool.workers) : pool.workers[w].pc = "done"
    /\ pool' = [pool EXCEPT !.state = "collect"]
    /\ UNCHANGED <<flacFrame, outDir>>

\* for err := range results
CollectResult ==
    /\ pool.state = "collect"
    /\ pool.results # <<>>
    /\ pool' = [pool EXCEPT !.results = Tail(@),
                            !.collected = @ + 1,
                            !.errorCount = IF Head(pool.results) THEN @ + 1 ELSE @]
    /\ UNCHANGED <<flacFrame, outDir>>

\* The results channel is closed and empty: the error, if errorCount > 0
ReturnFlac ==
    /\ pool.state = "collect"
    /\ pool.results = <<>>
    /\ pool' = [pool EXCEPT !.state = "returned", !.err = (pool.errorCount > 0)]
    /\ UNCHANGED <<flacFrame, outDir>>

NextFlac ==
    \/ FlacWalk
    \/ Vanish
    \/ SendJob
    \/ CloseJobs
    \/ \E w \in 1..Len(pool.workers) : Receive(w)
    \/ \E w \in 1..Len(pool.workers) : RunEncoder(w)
    \/ \E w \in 1..Len(pool.workers) : Remove(w)
    \/ \E w \in 1..Len(pool.workers) : SendResult(w)
    \/ WaitWorkers
    \/ CollectResult
    \/ ReturnFlac

SpecFlac == InitFlac /\ [][NextFlac]_vars

\* The scheduler runs a goroutine that can run, and the encoder ends
SpecFlacLive == SpecFlac /\ WF_vars(NextFlac)

\* The finished calls of ConvertToFlac on a file
FinishedOn(f) == {c \in pool.finished : c.file = f}
\* The files a worker holds or has finished
InHand(f) == {w \in 1..Len(pool.workers) :
                 pool.workers[w].pc \in {"run", "remove", "send"}
                 /\ pool.workers[w].job = f}
FilesOf == {pool.files[k] : k \in 1..Len(pool.files)}

\* No file is converted twice, by one worker or by two
ExactlyOnceSoFar ==
    \A f \in FilesOf : Cardinality(FinishedOn(f)) + Cardinality(InHand(f)) <= 1

\* ConvertDirectory has returned, with all it owes
PoolDone ==
    /\ pool.state = "returned"
    /\ \A f \in FilesOf : Cardinality(FinishedOn(f)) = 1
    /\ Cardinality(pool.finished) = Len(pool.files)
    /\ pool.collected = Len(pool.files)
    /\ pool.err <=> \E c \in pool.finished : c.err
    /\ \A w \in 1..Len(pool.workers) : pool.workers[w].pc = "done"

\* C25: for n >= 1 WAV files and min(maxWorkers, n) workers, under any
\* interleaving ConvertDirectory terminates, nothing blocking forever on the
\* jobs or the results channel; each file is converted by exactly one worker
\* exactly once, exactly n results are collected, and an error is returned if
\* and only if at least one conversion failed.
C25_PoolCompleteness ==
    /\ [](Len(pool.workers) <= Len(pool.files) /\ ExactlyOnceSoFar)
    /\ [](pool.state = "returned" => PoolDone)
    /\ <>(pool.state = "returned")

\* Three files shared by two workers, one conversion failed, all collected
C25_Witness ==
    /\ PoolDone
    /\ Len(pool.files) = 3
    /\ Len(pool.workers) = 2
    /\ pool.err
    /\ \E c \in pool.finished : ~c.err

\* The content of a file on disk, <<>> if there is none
DataOf_Wav(name) ==
    IF name \in OnDisk THEN (CHOOSE o \in outDir : o.name = name).data ELSE <<>>

\* C26: ConvertToFlac removes the WAV file only after the encoder has run
\* without error; if the input does not exist or the encoder fails, the WAV
\* file is left as it was and an error is returned.
C26_RemoveOnlyAfterSuccess ==
    /\ \A f \in pool.removed :
          \/ \E w \in InHand(f) : pool.workers[w].outcome = "ok"
          \/ \E c \in FinishedOn(f) : c.outcome = "ok"
    /\ \A w \in 1..Len(pool.workers) :
          LET job == pool.workers[w].job
          IN /\ pool.workers[w].pc = "remove" => pool.workers[w].outcome = "encoded"
             /\ pool.workers[w].outcome = "runfail" =>
                   /\ pool.workers[w].err
                   /\ job \in OnDisk
                   /\ job \notin pool.removed
             /\ pool.workers[w].outcome = "missing" =>
                   /\ pool.workers[w].err
                   /\ job \notin OnDisk
                   /\ job \notin pool.removed
    /\ \A k \in 1..Len(pool.files) :
          (pool.files[k] \notin pool.removed /\ pool.files[k] \notin pool.vanished)
             => DataOf_Wav(pool.files[k]) = <<k>>

\* One file converted and removed, another kept because its encoder failed
C26_Witness ==
    /\ pool.state = "returned"
    /\ \E c \in pool.finished :
          /\ c.outcome = "ok"
          /\ c.file \notin OnDisk
          /\ FlacName(c.file) \in OnDisk
    /\ \E c \in pool.finished :
          /\ c.outcome = "runfail"
          /\ c.err
          /\ c.file \in OnDisk

====
